---- MODULE Spec2Model ----
(***************************************************************************)
(* State-machine model of lonab_scraper.py: main() and scrape_lonab().      *)
(*                                                                         *)
(* A text is a sequence of tokens; a token is a word, "SP" (one blank) or  *)
(* "NL" (one line feed).  An element (div) carries the selectors that      *)
(* match it and its text nodes in document order.  The regex detectors of  *)
(* lines 105-141 and the fields html_classes / extraction_timestamp only   *)
(* add keys to an item and decide nothing else; they are left out of the   *)
(* item record.  A write to stdout either emits the whole line or raises   *)
(* before anything is written; the last-resort write of line 191 is taken  *)
(* to succeed.                                                             *)
(***************************************************************************)
EXTENDS Integers, Sequences, FiniteSets, TLC

\* ------------------------------------------------------------------ bounds
MaxDivs == 15

\* ------------------------------------------------------- program constants
MaxItems == 10
MinJoinedLen == 10
MinKeywordLen == 10

PrimarySelector == "#block-resultats > div"

alternative_selectors ==
  << ".block-resultats div", "[id*='resultat'] div", ".results div", ".tirage div" >>

FallbackSelector == "fallback_keyword_search"

keywords == {"tirage", "resultat", "gagnant", "numero", "fcfa"}

ResultWords == {"tirage", "resultat", "gagnant"}

AnnonceWords == {"annonce", "info", "prochaine"}

NoElementsError == "Aucun élément trouvé avec tous les sélecteurs"
TimeoutError == "Timeout: le site LONAB met trop de temps à répondre"
ConnectionErrorMsg == "Erreur de connexion au site LONAB"
NetworkErrorMsg == "Erreur réseau: "
GenericErrorMsg == "Erreur: "
CriticalErrorMsg == "Erreur critique: "

\* ------------------------------------------------------------ text model
\* Words of the modelled pages and their lowercase forms: length in
\* characters, result of str.lower().
WordInfo ==
  ( "Tirage"        :> [len |-> 6 , lower |-> "tirage"] ) @@
  ( "National"      :> [len |-> 8 , lower |-> "national"] ) @@
  ( "12-34-56-78"   :> [len |-> 11, lower |-> "12-34-56-78"] ) @@
  ( "5000"          :> [len |-> 4 , lower |-> "5000"] ) @@
  ( "FCFA"          :> [len |-> 4 , lower |-> "fcfa"] ) @@
  ( "Prochaine"     :> [len |-> 9 , lower |-> "prochaine"] ) @@
  ( "annonce"       :> [len |-> 7 , lower |-> "annonce"] ) @@
  ( "Informations"  :> [len |-> 12, lower |-> "informations"] ) @@
  ( "GAGNANT"       :> [len |-> 7 , lower |-> "gagnant"] ) @@
  ( "Loterie"       :> [len |-> 7 , lower |-> "loterie"] ) @@
  ( "Nationale"     :> [len |-> 9 , lower |-> "nationale"] ) @@
  ( "numero"        :> [len |-> 6 , lower |-> "numero"] ) @@
  ( "ok"            :> [len |-> 2 , lower |-> "ok"] ) @@
  ( "no"            :> [len |-> 2 , lower |-> "no"] ) @@
  ( "123456"        :> [len |-> 6 , lower |-> "123456"] ) @@
  ( "tirage"        :> [len |-> 6 , lower |-> "tirage"] ) @@
  ( "national"      :> [len |-> 8 , lower |-> "national"] ) @@
  ( "fcfa"          :> [len |-> 4 , lower |-> "fcfa"] ) @@
  ( "prochaine"     :> [len |-> 9 , lower |-> "prochaine"] ) @@
  ( "informations"  :> [len |-> 12, lower |-> "informations"] ) @@
  ( "gagnant"       :> [len |-> 7 , lower |-> "gagnant"] ) @@
  ( "loterie"       :> [len |-> 7 , lower |-> "loterie"] ) @@
  ( "nationale"     :> [len |-> 9 , lower |-> "nationale"] )

\* Substrings of a lowercase word among the words the program looks for.
SubWords ==
  ( "tirage"       :> {"tirage"} )    @@
  ( "fcfa"         :> {"fcfa"} )      @@
  ( "prochaine"    :> {"prochaine"} ) @@
  ( "annonce"      :> {"annonce"} )   @@
  ( "informations" :> {"info"} )      @@
  ( "gagnant"      :> {"gagnant"} )   @@
  ( "numero"       :> {"numero"} )

\* Operator arguments are passed unevaluated; binding the argument once
\* keeps the recursive definitions below linear in the length of the text.
Once(F(_), x) == CHOOSE r \in { F(v) : v \in {x} } : TRUE

IsSpace(t) == t \in {"SP", "NL"}

TokLen(t) == IF IsSpace(t) THEN 1 ELSE WordInfo[t].len

RECURSIVE StrLenRec(_)
StrLenRec(s) == IF s = << >> THEN 0 ELSE TokLen(Head(s)) + StrLenRec(Tail(s))

\* len(s)
StrLen(s) == Once(StrLenRec, s)

\* str.lower(): blanks and line feeds are unchanged
LowerTok(t) == IF IsSpace(t) THEN t ELSE WordInfo[t].lower

LowerSeq(s) == [k \in 1..Len(s) |-> LowerTok(s[k])]

Lower(s) == Once(LowerSeq, s)

\* word in text
Contains(s, word) ==
  \E t \in {s} : \E k \in 1..Len(t) : t[k] \in DOMAIN SubWords /\ word \in SubWords[t[k]]

RECURSIVE LStripRec(_)
LStripRec(s) ==
  IF s = << >> THEN << >>
  ELSE IF IsSpace(Head(s)) THEN LStripRec(Tail(s)) ELSE s

RECURSIVE RStripRec(_)
RStripRec(s) ==
  IF s = << >> THEN << >>
  ELSE IF IsSpace(s[Len(s)]) THEN RStripRec(SubSeq(s, 1, Len(s) - 1)) ELSE s

StripSeq(s) == RStripRec(Once(LStripRec, s))

\* str.strip()
Strip(s) == Once(StripSeq, s)

RECURSIVE ConcatRec(_)
ConcatRec(parts) ==
  IF parts = << >> THEN << >> ELSE Head(parts) \o ConcatRec(Tail(parts))

RECURSIVE JoinNLRec(_)
JoinNLRec(parts) ==
  IF parts = << >> THEN << >>
  ELSE IF Len(parts) = 1 THEN parts[1]
  ELSE parts[1] \o << "NL" >> \o JoinNLRec(Tail(parts))

\* ''.join(parts)
Concat(parts) == Once(ConcatRec, parts)

\* '\n'.join(parts)
JoinNL(parts) == Once(JoinNLRec, parts)

RECURSIVE SplitLinesRec(_)
SplitLinesRec(s) ==
  IF \A k \in 1..Len(s) : s[k] # "NL" THEN << s >>
  ELSE LET p == CHOOSE k \in 1..Len(s) : s[k] = "NL" /\ \A j \in 1..(k - 1) : s[j] # "NL"
       IN  << SubSeq(s, 1, p - 1) >> \o SplitLinesRec(SubSeq(s, p + 1, Len(s)))

\* str.split('\n'): always at least one part
SplitLines(s) == Once(SplitLinesRec, s)

IsNonEmpty(s) == s # << >>

StripAll(parts) == [k \in 1..Len(parts) |-> Strip(parts[k])]

\* the parts stripped, the empty ones dropped
StrippedNonEmpty(parts) == SelectSeq(Once(StripAll, parts), IsNonEmpty)

\* element.get_text(): the text nodes concatenated as they are
GetText(element) == Concat(element.strings)

\* element.get_text(separator='\n', strip=True): stripped non-empty nodes
GetTextStripped(element) == JoinNL(StrippedNonEmpty(element.strings))

\* lines = [line.strip() for line in content.split('\n') if line.strip()]
Lines(content) == StrippedNonEmpty(SplitLines(content))

\* '\n'.join(lines)
JoinedText(element) == JoinNL(Lines(GetTextStripped(element)))

\* ------------------------------------------------------------- page model
\* Selector sets a div of the modelled pages can match.  A direct child of
\* #block-resultats is also a div below an id containing 'resultat'.
SelKinds ==
  { {},
    {PrimarySelector, alternative_selectors[2]},
    {alternative_selectors[1]},
    {alternative_selectors[2]},
    {alternative_selectors[3]},
    {alternative_selectors[4]},
    {alternative_selectors[1], alternative_selectors[3]} }

T_result  == << <<"Tirage", "SP", "National">>, <<"12-34-56-78">>, <<"5000", "SP", "FCFA">> >>
T_annonce == << <<"SP", "Prochaine", "SP", "annonce", "NL">> >>
T_both    == << <<"Informations", "SP", "GAGNANT">> >>
T_unknown == << <<"Loterie", "SP", "Nationale">> >>
T_exact10 == << <<"GAGNANT", "SP", "no">> >>
T_short   == << <<"Tirage">> >>
T_padded  == << <<"numero", "NL", "SP", "SP", "SP", "NL", "ok">> >>
T_kw11    == << <<"FCFA", "SP", "123456">> >>

TextPatterns ==
  { << T_result, T_annonce, T_both, T_unknown, T_exact10 >>,
    << T_short, T_result, T_padded, T_kw11 >>,
    << T_short, T_padded >>,
    << T_unknown >> }

\* A page of n divs in document order: odd divs match sa, even divs sb.
Page(n, sa, sb, pat) ==
  [k \in 1..n |-> [sel     |-> IF k % 2 = 1 THEN sa ELSE sb,
                   strings |-> pat[((k - 1) % Len(pat)) + 1]]]

Pages ==
  { Page(n, sa, sb, pat) : n \in 0..MaxDivs, sa \in SelKinds, sb \in SelKinds,
                           pat \in TextPatterns }

\* soup.select(selector): the matching divs in document order
Select(soup, selector) ==
  LET Matches(div) == selector \in div.sel IN SelectSeq(soup, Matches)

\* line 78: any(keyword in text for keyword in keywords) and len(text.strip()) > 10
KeywordMatch(div) ==
  LET text == Lower(GetText(div))
  IN  /\ \E keyword \in keywords : Contains(text, keyword)
      /\ StrLen(Strip(text)) > MinKeywordLen

\* lines 73-79: every div of the page that passes the keyword test
KeywordSearch(soup) == SelectSeq(soup, KeywordMatch)

\* ------------------------------------------------------------- extraction
\* variant: the length test reads the raw content instead of the joined lines
TooShort_RawContent(element) == StrLen(GetTextStripped(element)) < MinJoinedLen

\* line 93: the element is skipped
TooShort(element) == StrLen(JoinedText(element)) < MinJoinedLen

\* variant: the announcement words are looked for first
Classify_AnnonceFirst(content) ==
  LET content_lower == Lower(content)
  IN  IF \E word \in AnnonceWords : Contains(content_lower, word) THEN "annonce"
      ELSE IF \E word \in ResultWords : Contains(content_lower, word) THEN "resultat"
      ELSE "unknown"

\* lines 143-150
Classify(content) ==
  LET content_lower == Lower(content)
  IN  IF \E word \in ResultWords : Contains(content_lower, word) THEN "resultat"
      ELSE IF \E word \in AnnonceWords : Contains(content_lower, word) THEN "annonce"
      ELSE "unknown"

\* variant: enumerate without its start value, items numbered from 0
ElementData_FromZero(i, element) ==
  LET content == GetTextStripped(element)
  IN  [item_number    |-> i - 1,
       text_content   |-> JoinedText(element),
       text_lines     |-> Lines(content),
       content_length |-> StrLen(content),
       content_type   |-> Classify(content)]

\* lines 96-103, 143-150: the item built for the i-th examined element
ElementData(i, element) ==
  LET content == GetTextStripped(element)
  IN  [item_number    |-> i,
       text_content   |-> JoinedText(element),
       text_lines     |-> Lines(content),
       content_length |-> StrLen(content),
       content_type   |-> Classify(content)]

\* elements[:10]
Capped(elements) == SubSeq(elements, 1, IF Len(elements) < MaxItems THEN Len(elements) ELSE MaxItems)

\* ------------------------------------------------------------- exceptions
\* What requests.get / raise_for_status can raise, with the classes each is
\* an instance of (ConnectTimeout derives from ConnectionError and Timeout).
ExcClasses ==
  ( "ReadTimeout"      :> {"Timeout", "RequestException", "Exception"} ) @@
  ( "ConnectTimeout"   :> {"ConnectionError", "Timeout", "RequestException", "Exception"} ) @@
  ( "ConnectionError"  :> {"ConnectionError", "RequestException", "Exception"} ) @@
  ( "HTTPError"        :> {"RequestException", "Exception"} ) @@
  ( "TooManyRedirects" :> {"RequestException", "Exception"} ) @@
  ( "Exception"        :> {"Exception"} )

FetchFailures == DOMAIN ExcClasses

\* variant: the ConnectionError clause comes before the Timeout clause
ErrorFor_ConnectionFirst(kind) ==
  IF "ConnectionError" \in ExcClasses[kind] THEN ConnectionErrorMsg
  ELSE IF "Timeout" \in ExcClasses[kind] THEN TimeoutError
  ELSE IF "RequestException" \in ExcClasses[kind] THEN NetworkErrorMsg
  ELSE GenericErrorMsg

\* lines 157-164: the except clauses in textual order, first match wins
ErrorFor(kind) ==
  IF "Timeout" \in ExcClasses[kind] THEN TimeoutError
  ELSE IF "ConnectionError" \in ExcClasses[kind] THEN ConnectionErrorMsg
  ELSE IF "RequestException" \in ExcClasses[kind] THEN NetworkErrorMsg
  ELSE GenericErrorMsg

\* variant: the exit status is 0 whatever the report says
ExitCode_AlwaysZero(report) == 0

\* line 182
ExitCode(report) == IF report.success THEN 0 ELSE 1

\* lines 19-28
InitialResult ==
  [extraction_date |-> "now",
   source_url      |-> "http://www.lonab.bf",
   selector        |-> PrimarySelector,
   success         |-> FALSE,
   error           |-> "None",
   items           |-> << >>,
   raw_count       |-> 0,
   environment     |-> "render.com"]

\* lines 185-190
error_result ==
  [success     |-> FALSE,
   error       |-> CriticalErrorMsg,
   items       |-> << >>,
   environment |-> "render.com"]

\* json.dumps(obj, ensure_ascii=False[, separators]): one JSON object with
\* the keys of obj; compact when the separators are given
Dumps(obj, compact) == [object |-> obj, compact |-> compact]

NoReport == [none |-> TRUE]

\* ------------------------------------------------------------------ state
VARIABLES
  pc,        \* position in main() / scrape_lonab()
  html,      \* the page the server answered with
  elements,  \* the local 'elements'
  result,    \* the dict 'result'
  ai,        \* index of the alternative selector the for loop is at
  i,         \* enumerate index of the extraction loop
  exc,       \* kind of the last exception raised, "none" if none
  raisedAt,  \* history: where the first exception of the run was raised
             \*          (exc then keeps the kind of that first exception)
  tried,     \* history: strategies evaluated, in order
  examined,  \* history: positions of 'elements' the extraction loop read
  stdout,    \* lines written to standard output
  exitcode   \* process exit status, -1 while running

vars == << pc, html, elements, result, ai, i, exc, raisedAt, tried, examined, stdout, exitcode >>

Init ==
  /\ pc = "main"
  /\ html = << >>
  /\ elements = << >>
  /\ result = NoReport
  /\ ai = 1
  /\ i = 1
  /\ exc = "none"
  /\ raisedAt = "none"
  /\ tried = << >>
  /\ examined = {}
  /\ stdout = << >>
  /\ exitcode = -1

\* variant: the alternatives are tried whatever the primary selector found
AfterPrimary_NoGuard(found) == "select_alt"

\* line 56: the alternatives are tried only when the primary selector found nothing
AfterPrimary(found) == IF found = << >> THEN "select_alt" ELSE "extract"

\* variant: the early return of line 86 is missing
AfterKeyword_NoReturn(found) == "extract"

\* line 84: nothing found by any strategy ends the scrape
AfterKeyword(found) == IF found = << >> THEN "no_elements" ELSE "extract"

\* ---------------------------------------------------------------- actions
\* lines 173-174: the two banner lines reach stderr
MainBanner ==
  /\ pc = "main"
  /\ pc' = "scrape"
  /\ UNCHANGED << html, elements, result, ai, i, exc, raisedAt, tried, examined, stdout, exitcode >>

\* lines 173-174: a write to stderr raises
MainBannerFails ==
  /\ pc = "main"
  /\ pc' = "main_except"
  /\ raisedAt' = "main"
  /\ exc' = "Exception"
  /\ UNCHANGED << html, elements, result, ai, i, tried, examined, stdout, exitcode >>

\* lines 17-28: the report is created with its defaults
ScrapeInit ==
  /\ pc = "scrape"
  /\ result' = InitialResult
  /\ pc' = "fetch"
  /\ UNCHANGED << html, elements, ai, i, exc, raisedAt, tried, examined, stdout, exitcode >>

\* lines 42-43: the GET answers 2xx with some page
FetchOk ==
  /\ pc = "fetch"
  /\ \E page \in Pages : html' = page
  /\ pc' = "parse"
  /\ UNCHANGED << elements, result, ai, i, exc, raisedAt, tried, examined, stdout, exitcode >>

\* lines 42-43: requests.get or raise_for_status raises
FetchFails ==
  /\ pc = "fetch"
  /\ \E kind \in FetchFailures : exc' = kind
  /\ raisedAt' = "fetch"
  /\ pc' = "except"
  /\ UNCHANGED << html, elements, result, ai, i, tried, examined, stdout, exitcode >>

\* lines 46-49: parse, write the length to stderr
Parse ==
  /\ pc = "parse"
  /\ pc' = "select_primary"
  /\ UNCHANGED << html, elements, result, ai, i, exc, raisedAt, tried, examined, stdout, exitcode >>

\* lines 52-56: primary selector
SelectPrimary ==
  /\ pc = "select_primary"
  /\ elements' = Select(html, PrimarySelector)
  /\ result' = [result EXCEPT !.raw_count = Len(elements')]
  /\ tried' = Append(tried, PrimarySelector)
  /\ ai' = 1
  /\ pc' = AfterPrimary(elements')
  /\ UNCHANGED << html, i, exc, raisedAt, examined, stdout, exitcode >>

\* lines 64-71: one round of the loop over alternative_selectors
SelectAlt ==
  /\ pc = "select_alt"
  /\ LET alt_selector == alternative_selectors[ai]
         found == Select(html, alt_selector)
     IN  /\ elements' = found
         /\ tried' = Append(tried, alt_selector)
         /\ IF found # << >>
            THEN /\ result' = [result EXCEPT !.selector = alt_selector,
                                             !.raw_count = Len(found)]
                 /\ pc' = "extract"
                 /\ ai' = ai
            ELSE /\ result' = result
                 /\ pc' = IF ai = Len(alternative_selectors) THEN "keyword" ELSE "select_alt"
                 /\ ai' = IF ai = Len(alternative_selectors) THEN ai ELSE ai + 1
  /\ UNCHANGED << html, i, exc, raisedAt, examined, stdout, exitcode >>

\* lines 71-84: keyword search over every div
KeywordFallback ==
  /\ pc = "keyword"
  /\ elements' = elements \o KeywordSearch(html)
  /\ result' = [result EXCEPT !.raw_count = Len(elements'),
                              !.selector = FallbackSelector]
  /\ tried' = Append(tried, FallbackSelector)
  /\ pc' = AfterKeyword(elements')
  /\ UNCHANGED << html, ai, i, exc, raisedAt, examined, stdout, exitcode >>

\* lines 84-86: nothing found, the report is returned as it is
NoElements ==
  /\ pc = "no_elements"
  /\ result' = [result EXCEPT !.error = NoElementsError]
  /\ pc' = "emit"
  /\ UNCHANGED << html, elements, ai, i, exc, raisedAt, tried, examined, stdout, exitcode >>

\* lines 89-152: one round of the loop over elements[:10]
ExtractStep ==
  /\ pc = "extract"
  /\ i <= Len(Capped(elements))
  /\ LET element == Capped(elements)[i]
     IN  result' = IF TooShort(element) THEN result
                   ELSE [result EXCEPT !.items = Append(@, ElementData(i, element))]
  /\ examined' = examined \cup {i}
  /\ i' = i + 1
  /\ UNCHANGED << pc, html, elements, ai, exc, raisedAt, tried, stdout, exitcode >>

\* lines 154-155, 167: the loop is over, success is set and logged
Success ==
  /\ pc = "extract"
  /\ i > Len(Capped(elements))
  /\ result' = [result EXCEPT !.success = TRUE]
  /\ pc' = "emit"
  /\ UNCHANGED << html, elements, ai, i, exc, raisedAt, tried, examined, stdout, exitcode >>

\* lines 154-155: success is set, then the write to stderr raises
SuccessLogFails ==
  /\ pc = "extract"
  /\ i > Len(Capped(elements))
  /\ result' = [result EXCEPT !.success = TRUE]
  /\ exc' = "Exception"
  /\ raisedAt' = "success_log"
  /\ pc' = "except"
  /\ UNCHANGED << html, elements, ai, i, tried, examined, stdout, exitcode >>

\* lines 46-152: a statement of the try block raises an unclassified exception
Raise ==
  /\ \/ pc \in {"parse", "select_primary", "select_alt", "keyword"}
     \/ pc = "extract" /\ i <= Len(Capped(elements))
  /\ exc' = "Exception"
  /\ raisedAt' = pc
  /\ pc' = "except"
  /\ UNCHANGED << html, elements, result, ai, i, tried, examined, stdout, exitcode >>

\* lines 157-167: the matching except clause sets the error, the report is returned
Except ==
  /\ pc = "except"
  /\ result' = [result EXCEPT !.error = ErrorFor(exc)]
  /\ pc' = "emit"
  /\ UNCHANGED << html, elements, ai, i, exc, raisedAt, tried, examined, stdout, exitcode >>

\* lines 163-165: the write to stderr in 'except Exception' raises; the
\* exception leaves scrape_lonab and main's 'result' is never bound
ExceptLogFails ==
  /\ pc = "except"
  /\ ErrorFor(exc) = GenericErrorMsg
  /\ result' = NoReport
  /\ pc' = "main_except"
  /\ UNCHANGED << html, elements, ai, i, exc, raisedAt, tried, examined, stdout, exitcode >>

\* line 180: the report is written to stdout as one compact line
Emit ==
  /\ pc = "emit"
  /\ stdout' = Append(stdout, Dumps(result, TRUE))
  /\ pc' = "exit"
  /\ UNCHANGED << html, elements, result, ai, i, exc, raisedAt, tried, examined, exitcode >>

\* line 180: json.dumps or the write raises, nothing is written
EmitFails ==
  /\ pc = "emit"
  /\ raisedAt' = IF raisedAt = "none" THEN "emit" ELSE raisedAt
  /\ exc' = IF raisedAt = "none" THEN "Exception" ELSE exc
  /\ pc' = "main_except"
  /\ UNCHANGED << html, elements, result, ai, i, tried, examined, stdout, exitcode >>

\* line 182
Exit ==
  /\ pc = "exit"
  /\ exitcode' = ExitCode(result)
  /\ pc' = "done"
  /\ UNCHANGED << html, elements, result, ai, i, exc, raisedAt, tried, examined, stdout >>

\* variant: the handler exits without writing the fallback report
MainExcept_Silent ==
  /\ pc = "main_except"
  /\ exitcode' = 1
  /\ pc' = "done"
  /\ UNCHANGED << html, elements, result, ai, i, exc, raisedAt, tried, examined, stdout >>

\* lines 184-192: the fallback report is written, exit status 1
MainExcept ==
  /\ pc = "main_except"
  /\ stdout' = Append(stdout, Dumps(error_result, FALSE))
  /\ exitcode' = 1
  /\ pc' = "done"
  /\ UNCHANGED << html, elements, result, ai, i, exc, raisedAt, tried, examined >>

Next ==
  \/ MainBanner
  \/ MainBannerFails
  \/ ScrapeInit
  \/ FetchOk
  \/ FetchFails
  \/ Parse
  \/ SelectPrimary
  \/ SelectAlt
  \/ KeywordFallback
  \/ NoElements
  \/ ExtractStep
  \/ Success
  \/ SuccessLogFails
  \/ Raise
  \/ Except
  \/ ExceptLogFails
  \/ Emit
  \/ EmitFails
  \/ Exit
  \/ MainExcept

Spec == Init /\ [][Next]_vars

\* The program is one sequential thread: a step that can be taken is taken.
FairSpec == Spec /\ WF_vars(Next)

TypeOK ==
  /\ pc \in {"main", "scrape", "fetch", "parse", "select_primary", "select_alt", "keyword",
             "no_elements", "extract", "except", "emit", "exit", "main_except", "done"}
  /\ Len(html) <= MaxDivs + 1
  /\ exitcode \in {-1, 0, 1}

\* ----------------------------------------------------------------- claims
\* The strategies in their priority order, as the claims state it.
CascadeOrder ==
  << "#block-resultats > div", ".block-resultats div", "[id*='resultat'] div",
     ".results div", ".tirage div", "fallback_keyword_search" >>

\* What strategy k yields on a page.
Yield(page, k) == IF k = 6 THEN KeywordSearch(page) ELSE Select(page, CascadeOrder[k])

Returned == pc \in {"emit", "exit", "done"} /\ result # NoReport

\* C1: the strategies are evaluated in the fixed order primary, the four
\* alternatives, keyword fallback; a strategy is evaluated only when every
\* earlier one yielded nothing (so nothing is evaluated after a match of the
\* primary selector); the elements processed are those of the first strategy
\* with a non-empty yield and the selector field names that strategy.
C1_CascadeOrder ==
  /\ Len(tried) <= 6
  /\ \A k \in 1..Len(tried) : tried[k] = CascadeOrder[k]
  /\ \A k \in 2..Len(tried) : Yield(html, k - 1) = << >>
  /\ (Len(tried) > 0 /\ Yield(html, Len(tried)) # << >> /\ result # NoReport)
       => /\ elements = Yield(html, Len(tried))
          /\ result.selector = CascadeOrder[Len(tried)]
          /\ \A k \in 1..Len(result.items) :
               LET item == result.items[k]
               IN  item.text_content = JoinedText(Yield(html, Len(tried))[item.item_number])
  /\ \A k \in 1..Len(stdout) :
       (stdout[k].object.success /\ Yield(html, Len(tried)) # << >>)
         => stdout[k].object.selector = CascadeOrder[Len(tried)]

\* an alternative wins while a later alternative would match too
C1_Witness ==
  /\ pc = "done"
  /\ tried = SubSeq(CascadeOrder, 1, 3)
  /\ Yield(html, 5) # << >>
  /\ Len(stdout) = 1
  /\ stdout[1].object.success
  /\ stdout[1].object.selector = "[id*='resultat'] div"
  /\ Len(stdout[1].object.items) > 0

\* C2: the report never holds more than 10 items, never an item whose
\* joined text is shorter than 10 characters, and only the first 10
\* candidates are examined.
C2_CapAndMinLength ==
  /\ examined \subseteq 1..10
  /\ result # NoReport =>
       /\ Len(result.items) <= 10
       /\ \A k \in 1..Len(result.items) :
            StrLen(JoinNL(result.items[k].text_lines)) >= 10
  /\ \A k \in 1..Len(stdout) :
       /\ Len(stdout[k].object.items) <= 10
       /\ \A j \in 1..Len(stdout[k].object.items) :
            StrLen(stdout[k].object.items[j].text_content) >= 10

\* more than 10 candidates, some of the first 10 too short, some emitted
C2_Witness ==
  /\ pc = "done"
  /\ Len(elements) > 10
  /\ \E k \in 1..10 : StrLen(GetTextStripped(elements[k])) >= 10 /\ TooShort(elements[k])
  /\ examined = 1..10
  /\ Len(stdout) = 1
  /\ Len(stdout[1].object.items) \in 1..9

RequiredFields == {"success", "error", "items", "raw_count", "selector", "environment"}

\* C3: every report written to stdout contains the fields success, error,
\* items, raw_count, selector and environment.
C3_AllFields ==
  \A k \in 1..Len(stdout) : RequiredFields \subseteq DOMAIN stdout[k].object

\* C4: the exit code is 0 exactly when the emitted report has success=true,
\* and 1 in every other outcome (no elements found, fetch failures, errors
\* caught at the top level).
C4_ExitCode ==
  pc = "done" =>
    /\ exitcode \in {0, 1}
    /\ Len(stdout) = 1
    /\ (exitcode = 0) <=> (stdout[1].object.success = TRUE)
    /\ stdout[1].object.error = "Aucun élément trouvé avec tous les sélecteurs" => exitcode = 1
    /\ raisedAt \in {"fetch", "main", "emit"} => exitcode = 1
    /\ result = NoReport => exitcode = 1

\* a page without any match: the report is written, the exit code is 1
C4_Witness ==
  /\ pc = "done"
  /\ exitcode = 1
  /\ raisedAt = "none"
  /\ Len(tried) = 6
  /\ Len(stdout) = 1
  /\ stdout[1].object.success = FALSE

\* The message each kind of fetch failure is to give.
FetchErrorOf(kind) ==
  IF kind \in {"ReadTimeout", "ConnectTimeout"}
  THEN "Timeout: le site LONAB met trop de temps à répondre"
  ELSE IF kind = "ConnectionError" THEN "Erreur de connexion au site LONAB"
  ELSE "Erreur réseau: "

\* C5: when the GET fails the returned report has success=false, no items,
\* selector and raw_count at their defaults, the error message of the
\* failure kind (timeout, connection error, other request failure), and
\* the exit code is 1.
C5_FetchFailure ==
  raisedAt = "fetch" =>
    /\ Returned =>
         /\ result.success = FALSE
         /\ result.items = << >>
         /\ result.selector = "#block-resultats > div"
         /\ result.raw_count = 0
         /\ result.error # "None"
         /\ exc # "Exception" => result.error = FetchErrorOf(exc)
    /\ pc = "exit" => stdout = << Dumps(result, TRUE) >>
    /\ pc = "done" => exitcode = 1

\* a connect timeout, reported as a timeout
C5_Witness ==
  /\ pc = "done"
  /\ raisedAt = "fetch"
  /\ exc = "ConnectTimeout"
  /\ exitcode = 1
  /\ Len(stdout) = 1
  /\ stdout[1].object.error = "Timeout: le site LONAB met trop de temps à répondre"

NoMatch == Len(tried) = 6 /\ \A k \in 1..6 : Yield(html, k) = << >>

\* C6: when no selector and no keyword scan matches, the scrape returns
\* normally (no exception inside it) with success=false, the 'no elements
\* found' error, raw_count=0 and no items; the exit code is 1.
C6_NoElements ==
  NoMatch =>
    /\ pc \in {"no_elements", "emit", "exit", "main_except", "done"}
    /\ raisedAt \in {"none", "emit"}
    /\ result # NoReport
    /\ pc # "no_elements" =>
         /\ result.success = FALSE
         /\ result.error = "Aucun élément trouvé avec tous les sélecteurs"
         /\ result.raw_count = 0
         /\ result.items = << >>
    /\ pc = "exit" => stdout = << Dumps(result, TRUE) >>
    /\ pc = "done" => exitcode = 1

\* a page with divs, none of them matching anything
C6_Witness ==
  /\ NoMatch
  /\ Len(html) > 2
  /\ pc = "done"
  /\ raisedAt = "none"
  /\ Len(stdout) = 1
  /\ stdout[1].object.error = "Aucun élément trouvé avec tous les sélecteurs"

AllValid == \A k \in 1..Len(elements) : StrLen(JoinedText(elements[k])) >= 10

Min(a, b) == IF a < b THEN a ELSE b

\* C7: n candidates that all have a joined text of at least 10 characters
\* give exactly min(n, 10) items, in document order, numbered 1..min(n, 10),
\* with raw_count = n; 15 candidates give 10 items.
C7_ValidCandidates ==
  (Returned /\ result.success /\ AllValid) =>
    /\ Len(result.items) = Min(Len(elements), 10)
    /\ \A k \in 1..Len(result.items) :
         /\ result.items[k].item_number = k
         /\ result.items[k].text_content = JoinedText(elements[k])
    /\ result.raw_count = Len(elements)
    /\ Len(elements) = 15 => Len(result.items) = 10

\* 15 valid candidates of different texts, 10 items written
C7_Witness ==
  /\ pc = "done"
  /\ Len(elements) = 15
  /\ AllValid
  /\ elements[1].strings # elements[2].strings
  /\ Len(stdout) = 1
  /\ Len(stdout[1].object.items) = 10
  /\ stdout[1].object.raw_count = 15

C9_Classification ==
  result # NoReport =>
    \A k \in 1..Len(result.items) :
      LET item == result.items[k]
          text == Lower(GetTextStripped(Capped(elements)[item.item_number]))
          isResult == \E w \in {"tirage", "resultat", "gagnant"} : Contains(text, w)
          isAnnonce == \E w \in {"annonce", "info", "prochaine"} : Contains(text, w)
      IN  /\ item.content_type \in {"resultat", "annonce", "unknown"}
          /\ isResult => item.content_type = "resultat"
          /\ (~isResult /\ isAnnonce) => item.content_type = "annonce"
          /\ (~isResult /\ ~isAnnonce) => item.content_type = "unknown"

\* items of all three types, one of them with words of both categories
C9_Witness ==
  /\ pc = "done"
  /\ Len(stdout) = 1
  /\ LET items == stdout[1].object.items
     IN  /\ \E k \in 1..Len(items) : items[k].content_type = "annonce"
         /\ \E k \in 1..Len(items) : items[k].content_type = "unknown"
         /\ \E k \in 1..Len(items) :
              /\ items[k].content_type = "resultat"
              /\ Contains(Lower(items[k].text_content), "info")
              /\ Contains(Lower(items[k].text_content), "gagnant")

\* C10: an exception raised inside the try block of the scrape gives a
\* returned report with success=false and an error; no report is written
\* with success=true and an error.
C10_FailureMeansNoSuccess ==
  /\ (Returned /\ raisedAt \notin {"none", "main", "emit"})
       => (result.success = FALSE /\ result.error # "None")
  /\ \A k \in 1..Len(stdout) :
       ~(stdout[k].object.success /\ stdout[k].object.error # "None")

====
